---- MODULE Spec2Model ----
(***************************************************************************)
(* Model of split_audiobook.py: main() as a state machine, one action per  *)
(* block of main(), with the thread pool of the concurrent phase.          *)
(* Text (paths, titles, arguments) is a sequence of one-character strings, *)
(* so that formatting, padding and splitting are computed as the code      *)
(* computes them. --verbose only adds prints and is left out.              *)
(***************************************************************************)
EXTENDS Integers, Sequences, FiniteSets, TLC

VARIABLES
    args,       \* parsed command line: infile, concurrency, dry_run, use_title, outdir
    pc,         \* position of the main thread inside main()
    fbase,      \* input base name without extension
    fext,       \* input extension, leading dot stripped
    info,       \* result of parseChapters
    outdir,     \* resolved output directory
    dirs,       \* directories created by this run
    chapters,   \* chapters that passed validate_chapter
    max_chapter,
    WIS,        \* the work plan
    printed,    \* commands printed by the dry run
    jobs,       \* futures of the pool, in submission order
    n_jobs,
    success,
    errors,
    log,        \* lines printed, as <<kind, job index, chapter id or 0>>
    ret,        \* value returned by main
    exc         \* exception that left main uncaught

vars == <<args, pc, fbase, fext, info, outdir, dirs, chapters, max_chapter,
          WIS, printed, jobs, n_jobs, success, errors, log, ret, exc>>

\* ------------------------------------------------------------------ bounds
MaxChapters == 2
MaxWorkers == 2

\* ------------------------------------------------------------------ text
NoText == <<>>

DigitChars == <<"0", "1", "2", "3", "4", "5", "6", "7", "8", "9">>

\* str(n) for a non-negative integer
RECURSIVE Str(_)
Str(n) == IF n < 10 THEN <<DigitChars[n + 1]>>
          ELSE Str(n \div 10) \o <<DigitChars[(n % 10) + 1]>>

RECURSIVE Fill(_, _)
Fill(c, k) == IF k <= 0 THEN <<>> ELSE <<c>> \o Fill(c, k - 1)

\* '{n:{fill}{width}}'.format(n=n, fill='0', width=width)
ZeroPad(n, width) == Fill("0", width - Len(Str(n))) \o Str(n)

\* index of the last occurrence of c in s, 0 when absent (str.rfind, 1-based)
RFind(s, c) ==
    LET hits == {i \in 1..Len(s) : s[i] = c}
    IN  IF hits = {} THEN 0 ELSE CHOOSE i \in hits : \A j \in hits : j <= i

\* os.path.basename
Basename(p) == SubSeq(p, RFind(p, "/") + 1, Len(p))

\* os.path.splitext on a name without separators: the extension starts at the
\* last dot, unless only dots precede it
Splitext(p) ==
    LET dot == RFind(p, ".")
    IN  IF dot > 0 /\ \E i \in 1..(dot - 1) : p[i] # "."
        THEN <<SubSeq(p, 1, dot - 1), SubSeq(p, dot, Len(p))>>
        ELSE <<p, NoText>>

\* os.path.join(a, b) for a relative b
PathJoin(a, b) ==
    IF a = NoText \/ a[Len(a)] = "/" THEN a \o b ELSE a \o <<"/">> \o b

\* ------------------------------------------------------------------ values
\* Optional text: None, or a text
None == [some |-> FALSE, val |-> NoText]
Some(t) == [some |-> TRUE, val |-> t]
\* Python truthiness of an optional text: None and "" are false
Truthy(o) == o.some /\ o.val # NoText

\* ------------------------------------------------------------------ inputs
Infiles == { <<"d", "/", "a", ".", "m">>, <<"a">>, <<".", "m">>, <<"a", ".">> }
Outdirs == { None, Some(<<"o">>) }
\* the directories tempfile.mkdtemp may create: a fresh name in every run
TempDirs == { <<"t">>, <<"u">> }

ChapterIds == {1, 10}
Ticks == {0, 1}
Titles == { NoText, <<"T">> }

\* the "tags" entry of a chapter: absent, present without title, with title
NoTags == [present |-> FALSE, title |-> None]
TagsWith(o) == [present |-> TRUE, title |-> o]

\* One chapter of the probe's output, with the fields main reads.
\* start_time/end_time are the probe's string rendering of start/end.
ProbedChapters(ids, tags) ==
    { [id |-> i, start |-> s, end |-> e,
       start_time |-> Str(s), end_time |-> Str(e), tags |-> t] :
      i \in ids, s \in Ticks, e \in Ticks, t \in tags }

RECURSIVE SeqsUpTo(_, _)
SeqsUpTo(S, n) ==
    IF n = 0 THEN { <<>> }
    ELSE LET shorter == SeqsUpTo(S, n - 1)
         IN  shorter \cup { Append(q, x) : q \in { r \in shorter : Len(r) = n - 1 }, x \in S }

\* chapter lists with any ids, in any order, with and without (empty) titles
AnyChapterLists ==
    SeqsUpTo(ProbedChapters(ChapterIds,
                            {NoTags, TagsWith(None)} \cup {TagsWith(Some(t)) : t \in Titles}),
             MaxChapters)

\* chapter lists as the probe numbers them: the id is the position, from 0
NumberedChapterLists ==
    { [i \in 1..Len(cs) |-> [cs[i] EXCEPT !.id = i - 1]] :
      cs \in SeqsUpTo(ProbedChapters({0}, {NoTags, TagsWith(Some(<<"T">>))}),
                      MaxChapters) }

\* the texts a probe may give as start_time and end_time
Stamps == { Str(t) : t \in Ticks }

\* chapter lists of a probe whose start_time/end_time are not tied to
\* start/end: main reads the four as separate entries of the chapter
LooseChapterLists ==
    SeqsUpTo({ [id |-> i, start |-> s, end |-> e,
                start_time |-> st, end_time |-> et, tags |-> NoTags] :
               i \in ChapterIds, s \in Ticks, e \in Ticks, st \in Stamps, et \in Stamps },
             MaxChapters)

ArgSets ==
    [infile : Infiles, concurrency : 1..MaxWorkers, dry_run : BOOLEAN,
     use_title : BOOLEAN, outdir : Outdirs]

NoInfo == [isNone |-> TRUE, hasChapters |-> FALSE, chapters |-> <<>>]

Init ==
    /\ args \in ArgSets
    /\ pc = "splitext"
    /\ fbase = NoText
    /\ fext = NoText
    /\ info = NoInfo
    /\ outdir = NoText
    /\ dirs = {}
    /\ chapters = <<>>
    /\ max_chapter = 0
    /\ WIS = <<>>
    /\ printed = <<>>
    /\ jobs = <<>>
    /\ n_jobs = 0
    /\ success = 0
    /\ errors = 0
    /\ log = <<>>
    /\ ret = 0
    /\ exc = "none"

\* ------------------------------------------------------------------ main, sequential phase
\* return -1 from main
Return(code, line) ==
    /\ pc' = "done"
    /\ ret' = code
    /\ log' = Append(log, <<line, 0>>)

\* lines 152-159
SplitInfile ==
    /\ pc = "splitext"
    /\ LET parts == Splitext(Basename(args.infile))
       IN  IF Len(parts[1]) = 0 \/ Len(parts[2]) = 0
           THEN /\ Return(-1, "basename or file extension is empty")
                /\ UNCHANGED <<fbase, fext>>
           ELSE /\ fbase' = parts[1]
                /\ fext' = IF parts[2][1] = "." THEN Tail(parts[2]) ELSE parts[2]
                /\ pc' = "probe"
                /\ UNCHANGED <<ret, log>>
    /\ UNCHANGED <<args, info, outdir, dirs, chapters, max_chapter, WIS, printed,
                   jobs, n_jobs, success, errors, exc>>

\* ------------------------------------------------------------------ the probe
\* What running ffprobe inside parseChapters can come to:
\*   "notfound"  the tool could not be started (sub.run raises OSError)
\*   "nonzero"   the tool exits non-zero (check_returncode raises, caught)
\*   "malformed" exit zero, output is not JSON (json.loads raises ValueError)
\*   "json"      exit zero, output is a JSON object d
ProbeJson(lists) ==
    { [isNone |-> FALSE, hasChapters |-> FALSE, chapters |-> <<>>] }
    \cup { [isNone |-> FALSE, hasChapters |-> TRUE, chapters |-> cs] : cs \in lists }

\* an exception leaves main: the interpreter prints a traceback and exits 1
Raise(e) ==
    /\ pc' = "done"
    /\ exc' = e

\* parseChapters, lines 77-103, called at line 161
ParseChapters(lists) ==
    /\ pc = "probe"
    /\ \/ /\ Raise("OSError")
          /\ UNCHANGED <<info, log>>
       \/ /\ info' = NoInfo
          /\ log' = Append(log, <<"ERROR: ffprobe", 0>>)
          /\ pc' = "check_info"
          /\ UNCHANGED exc
       \/ /\ Raise("JSONDecodeError")
          /\ UNCHANGED <<info, log>>
       \/ /\ \E d \in ProbeJson(lists) : info' = d
          /\ pc' = "check_info"
          /\ UNCHANGED <<exc, log>>
    /\ UNCHANGED <<args, fbase, fext, outdir, dirs, chapters, max_chapter, WIS,
                   printed, jobs, n_jobs, success, errors, ret>>

\* line 163 without the test for an empty chapter list
InfoUnusable_noempty(i) == i.isNone \/ ~i.hasChapters

\* line 163
InfoUnusable(i) == i.isNone \/ ~i.hasChapters \/ Len(i.chapters) = 0

\* lines 163-165
CheckInfo ==
    /\ pc = "check_info"
    /\ IF InfoUnusable(info)
       THEN Return(-1, "Could not parse chapters")
       ELSE /\ pc' = "outdir"
            /\ UNCHANGED <<ret, log>>
    /\ UNCHANGED <<args, fbase, fext, info, outdir, dirs, chapters, max_chapter,
                   WIS, printed, jobs, n_jobs, success, errors, exc>>

\* lines 167-171: os.makedirs(args.outdir) or tempfile.mkdtemp
MakeOutdir ==
    /\ pc = "outdir"
    /\ outdir' \in (IF Truthy(args.outdir) THEN {args.outdir.val} ELSE TempDirs)
    /\ dirs' = dirs \cup {outdir'}
    /\ pc' = "validate"
    /\ UNCHANGED <<args, fbase, fext, info, chapters, max_chapter, WIS, printed,
                   jobs, n_jobs, success, errors, log, ret, exc>>

\* validate_chapter that keeps a chapter of duration zero
validate_chapter_lt(ch) == ~((ch.end - ch.start) < 0)

\* validate_chapter, lines 176-182: TRUE when the chapter is kept
validate_chapter(ch) == ~((ch.end - ch.start) <= 0)

\* line 185: filter(None, (validate_chapter(ch) for ch in info["chapters"]))
ValidChapters(cs) == SelectSeq(cs, validate_chapter)

\* the chapters validate_chapter warns about and drops, lines 179-181
Dropped(cs) == SelectSeq(cs, LAMBDA ch : ~validate_chapter(ch))

\* lines 176-185
Validate ==
    /\ pc = "validate"
    /\ chapters' = ValidChapters(info.chapters)
    /\ log' = log \o [k \in 1..Len(Dropped(info.chapters)) |->
                        <<"WARNING: duration is zero or negative", Dropped(info.chapters)[k].id>>]
    /\ pc' = "max_chapter"
    /\ UNCHANGED <<args, fbase, fext, info, outdir, dirs, max_chapter, WIS, printed,
                   jobs, n_jobs, success, errors, ret, exc>>

\* max(ch['id'] for ch in cs), for a non-empty cs
MaxId(cs) == CHOOSE m \in {cs[i].id : i \in 1..Len(cs)} :
                 \A i \in 1..Len(cs) : cs[i].id <= m

\* line 188: max() of an empty sequence raises ValueError
FindMaxChapter ==
    /\ pc = "max_chapter"
    /\ IF chapters = <<>>
       THEN /\ Raise("ValueError")
            /\ UNCHANGED max_chapter
       ELSE /\ max_chapter' = MaxId(chapters)
            /\ pc' = "workitems"
            /\ UNCHANGED exc
    /\ UNCHANGED <<args, fbase, fext, info, outdir, dirs, chapters, WIS, printed,
                   jobs, n_jobs, success, errors, log, ret>>

\* ------------------------------------------------------------------ naming and work plan
\* chnum_format without the padding
chnum_format_nopad(n, maxch) == Str(n)

\* chnum_format, line 191
chnum_format(n, maxch) == ZeroPad(n, Len(Str(maxch)))

\* outfile_basename numbering every file with the maximum chapter id
outfile_basename_maxnum(n, title_maybe, maxch, use_title, base, ext) ==
    LET ch_num == ZeroPad(maxch, Len(Str(maxch)))
        title  == IF use_title /\ Truthy(title_maybe) THEN title_maybe.val ELSE base
    IN  <<"c", "h", " ">> \o ch_num \o <<" ", "-", " ">> \o title \o <<".">> \o ext

\* outfile_basename that ignores --no-use-title
outfile_basename_anytitle(n, title_maybe, maxch, use_title, base, ext) ==
    LET ch_num == ZeroPad(n, Len(Str(maxch)))
        title  == IF Truthy(title_maybe) THEN title_maybe.val ELSE base
    IN  <<"c", "h", " ">> \o ch_num \o <<" ", "-", " ">> \o title \o <<".">> \o ext

\* outfile_basename, lines 194-199: "ch {ch_num} - {title}.{ext}"
outfile_basename(n, title_maybe, maxch, use_title, base, ext) ==
    LET ch_num == chnum_format(n, maxch)
        title  == IF use_title /\ Truthy(title_maybe) THEN title_maybe.val ELSE base
    IN  <<"c", "h", " ">> \o ch_num \o <<" ", "-", " ">> \o title \o <<".">> \o ext

\* get_title_maybe, lines 202-205
get_title_maybe(ch) == IF ~ch.tags.present THEN None ELSE ch.tags.title

\* the WorkItem of one chapter, lines 209-218
WorkItem(chapter, maxch) ==
    [infile   |-> args.infile,
     outfile  |-> PathJoin(outdir, outfile_basename(chapter.id, get_title_maybe(chapter),
                                                    maxch, args.use_title, fbase, fext)),
     start    |-> chapter.start_time,
     end      |-> chapter.end_time,
     ch_id    |-> chapter.id,
     ch_max   |-> maxch,
     ch_title |-> get_title_maybe(chapter)]

\* a plan that lists the chapters last to first
gen_workitems_reversed(cs, maxch) == [i \in 1..Len(cs) |-> WorkItem(cs[Len(cs) + 1 - i], maxch)]

\* gen_workitems, lines 207-221
gen_workitems(cs, maxch) == [i \in 1..Len(cs) |-> WorkItem(cs[i], maxch)]

GenWorkitems ==
    /\ pc = "workitems"
    /\ WIS' = gen_workitems(chapters, max_chapter)
    /\ pc' = IF args.dry_run THEN "dry_run" ELSE "submit"
    /\ log' = IF args.dry_run THEN log ELSE Append(log, <<"Total chapters", Len(WIS')>>)
    /\ UNCHANGED <<args, fbase, fext, info, outdir, dirs, chapters, max_chapter,
                   printed, jobs, n_jobs, success, errors, ret, exc>>

\* ------------------------------------------------------------------ commands
\* "track={}/{}".format(ch_id, ch_max)
TrackTag(wi) == <<"t", "r", "a", "c", "k", "=">> \o Str(wi.ch_id) \o <<"/">> \o Str(wi.ch_max)

\* "title={}".format(ch_title)
TitleTag(wi) == <<"t", "i", "t", "l", "e", "=">> \o wi.ch_title.val

\* line 132 without the test for a title
metadata_title_always(wi) == << <<"-metadata">>, TitleTag(wi) >>

\* line 132
metadata_title(wi) == IF Truthy(wi.ch_title) THEN << <<"-metadata">>, TitleTag(wi) >> ELSE <<>>

\* workitem_to_ffmpeg_cmd, lines 110-137. The fixed option words are single
\* elements; the values taken from the work item are texts.
workitem_to_ffmpeg_cmd(wi) ==
    << <<"ffmpeg">>, <<"-nostdin">>, <<"-i">>, wi.infile, <<"-v">>, <<"error">>,
       <<"-map_chapters">>, <<"-1">>, <<"-vn">>, <<"-c">>, <<"copy">>,
       <<"-ss">>, wi.start, <<"-to">>, wi.end, <<"-n">> >>
    \o << <<"-metadata">>, TrackTag(wi) >>
    \o metadata_title(wi)
    \o << wi.outfile >>

\* the dry run without its return: main goes on to the pool
DryRunFallsThrough ==
    /\ pc = "dry_run"
    /\ printed' = [i \in 1..Len(WIS) |-> workitem_to_ffmpeg_cmd(WIS[i])]
    /\ pc' = "submit"
    /\ log' = Append(log, <<"Dry run complete", 0>>)
    /\ UNCHANGED <<args, fbase, fext, info, outdir, dirs, chapters, max_chapter,
                   WIS, jobs, n_jobs, success, errors, ret, exc>>

\* lines 225-232
DryRun ==
    /\ pc = "dry_run"
    /\ printed' = [i \in 1..Len(WIS) |-> workitem_to_ffmpeg_cmd(WIS[i])]
    /\ Return(0, "Dry run complete")
    /\ UNCHANGED <<args, fbase, fext, info, outdir, dirs, chapters, max_chapter,
                   WIS, jobs, n_jobs, success, errors, exc>>

\* ------------------------------------------------------------------ the pool
\* A future of the pool. state: Submitted (queued), Running, Succeeded (the
\* tool exited zero), Failed (it exited non-zero, or ffmpeg_split raised).
Future(wi) ==
    [wi |-> wi, state |-> "Submitted", cmd |-> <<>>, raised |-> FALSE, yielded |-> FALSE]

Running == {i \in 1..Len(jobs) : jobs[i].state = "Running"}
Finished == {i \in 1..Len(jobs) : jobs[i].state \in {"Succeeded", "Failed"}}

\* the pool exists from line 239 until its with-block is left
PoolAlive == pc \in {"submit", "collect", "unwind"}

\* start_all, lines 240-248: pool.submit for the next work item
Submit ==
    /\ pc = "submit"
    /\ Len(jobs) < Len(WIS)
    /\ jobs' = Append(jobs, Future(WIS[Len(jobs) + 1]))
    /\ IF Len(jobs') = Len(WIS)
       THEN /\ n_jobs' = Len(jobs')
            /\ pc' = "collect"
       ELSE UNCHANGED <<n_jobs, pc>>
    /\ UNCHANGED <<args, fbase, fext, info, outdir, dirs, chapters, max_chapter,
                   WIS, printed, success, errors, log, ret, exc>>

\* a pool that starts a job whenever one is queued
WorkerFree_unbounded == TRUE

\* a worker may take a job while fewer than max_workers jobs run
WorkerFree == Cardinality(Running) < args.concurrency

\* a worker whose command is built from the last work item of the plan
JobStart_lastitem(i) ==
    /\ PoolAlive
    /\ i \in 1..Len(jobs)
    /\ jobs[i].state = "Submitted"
    /\ \A j \in 1..(i - 1) : jobs[j].state # "Submitted"
    /\ WorkerFree
    /\ jobs' = [jobs EXCEPT ![i].state = "Running",
                            ![i].cmd = workitem_to_ffmpeg_cmd(WIS[Len(WIS)])]
    /\ UNCHANGED <<args, pc, fbase, fext, info, outdir, dirs, chapters, max_chapter,
                   WIS, printed, n_jobs, success, errors, log, ret, exc>>

\* a worker thread takes the oldest queued job and enters ffmpeg_split,
\* lines 281-285
JobStart(i) ==
    /\ PoolAlive
    /\ i \in 1..Len(jobs)
    /\ jobs[i].state = "Submitted"
    /\ \A j \in 1..(i - 1) : jobs[j].state # "Submitted"
    /\ WorkerFree
    /\ jobs' = [jobs EXCEPT ![i].state = "Running",
                            ![i].cmd = workitem_to_ffmpeg_cmd(jobs[i].wi)]
    /\ UNCHANGED <<args, pc, fbase, fext, info, outdir, dirs, chapters, max_chapter,
                   WIS, printed, n_jobs, success, errors, log, ret, exc>>

\* how sub.run and check_returncode can end, lines 285-291
ToolOutcomes == {"zero", "nonzero", "not started"}

\* a worker that adds a failed job to errors itself
JobEnd_counts(i) ==
    /\ PoolAlive
    /\ i \in 1..Len(jobs)
    /\ jobs[i].state = "Running"
    /\ \E o \in ToolOutcomes :
          /\ jobs' = [jobs EXCEPT ![i].state = IF o = "zero" THEN "Succeeded" ELSE "Failed",
                                  ![i].raised = (o = "not started")]
          /\ errors' = IF o = "zero" THEN errors ELSE errors + 1
    /\ UNCHANGED <<args, pc, fbase, fext, info, outdir, dirs, chapters, max_chapter,
                   WIS, printed, n_jobs, success, log, ret, exc>>

\* the job's subprocess ends, or could not be started
JobEnd(i) ==
    /\ PoolAlive
    /\ i \in 1..Len(jobs)
    /\ jobs[i].state = "Running"
    /\ \E o \in ToolOutcomes :
          jobs' = [jobs EXCEPT ![i].state = IF o = "zero" THEN "Succeeded" ELSE "Failed",
                               ![i].raised = (o = "not started")]
    /\ UNCHANGED <<args, pc, fbase, fext, info, outdir, dirs, chapters, max_chapter,
                   WIS, printed, n_jobs, success, errors, log, ret, exc>>

\* ------------------------------------------------------------------ the aggregator
\* the loop body without the errors += 1 of the except branch
Collect_uncounted(i) ==
    /\ pc = "collect"
    /\ i \in Finished
    /\ ~jobs[i].yielded
    /\ jobs' = [jobs EXCEPT ![i].yielded = TRUE]
    /\ IF jobs[i].raised
       THEN /\ log' = Append(log, <<"ERROR: job generated an exception", i>>)
            /\ UNCHANGED <<success, errors, exc>>
       ELSE IF jobs[i].state = "Succeeded"
       THEN /\ success' = success + 1
            /\ log' = Append(log, <<"done", i>>)
            /\ UNCHANGED <<errors, exc>>
       ELSE /\ errors' = errors + 1
            /\ log' = Append(log, <<"FAILURE", i>>)
            /\ exc' = "NameError"
            /\ UNCHANGED success
    /\ pc' = IF exc' # "none" THEN "unwind"
             ELSE IF \A j \in 1..Len(jobs') : jobs'[j].yielded THEN "report"
             ELSE "collect"
    /\ UNCHANGED <<args, fbase, fext, info, outdir, dirs, chapters, max_chapter,
                   WIS, printed, n_jobs, ret>>

\* the body of the as_completed loop for future i, lines 250-269
Collect(i) ==
    /\ pc = "collect"
    /\ i \in Finished
    /\ ~jobs[i].yielded
    /\ jobs' = [jobs EXCEPT ![i].yielded = TRUE]
    /\ IF jobs[i].raised
       THEN /\ errors' = errors + 1
            /\ log' = Append(log, <<"ERROR: job generated an exception", i>>)
            /\ UNCHANGED <<success, exc>>
       ELSE IF jobs[i].state = "Succeeded"
       THEN /\ success' = success + 1
            /\ log' = Append(log, <<"done", i>>)
            /\ UNCHANGED <<errors, exc>>
       ELSE \* line 266 reads the undefined name res: NameError
            /\ errors' = errors + 1
            /\ log' = Append(log, <<"FAILURE", i>>)
            /\ exc' = "NameError"
            /\ UNCHANGED success
    /\ pc' = IF exc' # "none" THEN "unwind"
             ELSE IF \A j \in 1..Len(jobs') : jobs'[j].yielded THEN "report"
             ELSE "collect"
    /\ UNCHANGED <<args, fbase, fext, info, outdir, dirs, chapters, max_chapter,
                   WIS, printed, n_jobs, ret>>

\* the with-block is left by an exception: the pool waits for every job, then
\* the exception leaves main
Unwind ==
    /\ pc = "unwind"
    /\ Finished = 1..Len(jobs)
    /\ pc' = "done"
    /\ UNCHANGED <<args, fbase, fext, info, outdir, dirs, chapters, max_chapter,
                   WIS, printed, jobs, n_jobs, success, errors, log, ret, exc>>

\* lines 272-278
Report ==
    /\ pc = "report"
    /\ log' = log \o << <<"Processing done", 0>> >>
                  \o (IF errors > 0 THEN << <<"WARNING: there were errors", 0>> >> ELSE <<>>)
                  \o << <<"Output directory", 0>> >>
    /\ ret' = 0
    /\ pc' = "done"
    /\ UNCHANGED <<args, fbase, fext, info, outdir, dirs, chapters, max_chapter,
                   WIS, printed, jobs, n_jobs, success, errors, exc>>

NextPlan ==
    \/ SplitInfile
    \/ ParseChapters(AnyChapterLists)
    \/ CheckInfo
    \/ MakeOutdir
    \/ Validate
    \/ FindMaxChapter
    \/ GenWorkitems
    \/ DryRun

Next ==
    \/ SplitInfile
    \/ ParseChapters(NumberedChapterLists)
    \/ CheckInfo
    \/ MakeOutdir
    \/ Validate
    \/ FindMaxChapter
    \/ GenWorkitems
    \/ DryRun
    \/ Submit
    \/ \E i \in 1..MaxChapters : JobStart(i)
    \/ \E i \in 1..MaxChapters : JobEnd(i)
    \/ \E i \in 1..MaxChapters : Collect(i)
    \/ Unwind
    \/ Report

\* a run of main with any command line, on a file the probe numbers itself
Spec == Init /\ [][Next]_vars

\* dry runs on chapter lists with arbitrary ids and titles
InitPlan == Init /\ args.dry_run /\ args.concurrency = 1

SpecPlan == InitPlan /\ [][NextPlan]_vars

\* real runs of one command line on chapter lists with arbitrary ids and
\* time stamps
InitLoose ==
    /\ Init
    /\ ~args.dry_run
    /\ args.use_title
    /\ args.infile = <<"d", "/", "a", ".", "m">>
    /\ args.outdir = Some(<<"o">>)
    /\ args.concurrency = 2

NextLoose ==
    \/ SplitInfile
    \/ ParseChapters(LooseChapterLists)
    \/ CheckInfo
    \/ MakeOutdir
    \/ Validate
    \/ FindMaxChapter
    \/ GenWorkitems
    \/ Submit
    \/ \E i \in 1..MaxChapters : JobStart(i)
    \/ \E i \in 1..MaxChapters : JobEnd(i)
    \/ \E i \in 1..MaxChapters : Collect(i)
    \/ Unwind
    \/ Report

SpecLoose == InitLoose /\ [][NextLoose]_vars

\* ------------------------------------------------------------------ observations
Exited == pc = "done"

\* the exit status of the process: sys.exit(main(argv)), or 1 after a traceback
ExitStatus == IF exc # "none" THEN 1 ELSE ret

Logged(kind) == \E k \in 1..Len(log) : log[k][1] = kind

\* positions of main before line 221 has built the work plan
PrePlan == {"splitext", "probe", "check_info", "outdir", "validate", "max_chapter", "workitems"}

\* the probed chapters whose duration is positive, by position
PositiveDuration == {i \in 1..Len(info.chapters) :
                        info.chapters[i].end - info.chapters[i].start > 0}

AllYielded == \A i \in 1..Len(jobs) : jobs[i].yielded

ToolFailed == {i \in 1..Len(jobs) : jobs[i].state = "Failed" /\ ~jobs[i].raised}

\* ------------------------------------------------------------------ C1
\* C1 (as claimed): when main has run the concurrent phase, consumed every
\* outcome and exited, the exit status is zero exactly when errors = 0.
C1_ExitStatusTellsErrors ==
    (Exited /\ jobs # <<>> /\ AllYielded) => ((ExitStatus = 0) <=> (errors = 0))

\* ------------------------------------------------------------------ C2
\* C2 (as claimed): when a job's tool exited non-zero, the run does not crash:
\* every outcome is consumed, errors counts the failed jobs, the command of
\* each failed job is logged exactly once and the final report is printed.
C2_ToolFailureIsReported ==
    (Exited /\ ToolFailed # {}) =>
        /\ exc = "none"
        /\ AllYielded
        /\ errors = Cardinality({i \in 1..Len(jobs) : jobs[i].state = "Failed"})
        /\ \A i \in ToolFailed :
              Cardinality({k \in 1..Len(log) : log[k] = <<"Command", i>>}) = 1
        /\ Logged("Processing done")

\* ------------------------------------------------------------------ C3
\* C3: once the work plan is built it has one WorkItem per probed chapter of
\* positive duration and none for any other chapter; jobs and tallies never
\* exceed that number.
C3_WorkItemsAreTheValidChapters ==
    /\ pc \notin PrePlan => Len(WIS) = Cardinality(PositiveDuration)
    /\ \A k \in 1..Len(WIS) :
          \E i \in PositiveDuration : info.chapters[i].id = WIS[k].ch_id
    /\ \A k \in 1..Len(jobs) :
          \E i \in PositiveDuration : info.chapters[i].id = jobs[k].wi.ch_id
    /\ Len(jobs) <= Cardinality(PositiveDuration)
    /\ success + errors <= Cardinality(PositiveDuration)

\* a finished run that dropped a chapter and tallied the others
C3_Witness ==
    /\ Exited
    /\ Len(info.chapters) = 2
    /\ Cardinality(PositiveDuration) = 1
    /\ Len(WIS) = 1
    /\ success + errors = 1

\* ------------------------------------------------------------------ C4
\* C4 (as claimed): when the probe lists chapters and none has a positive
\* duration, the run ends with a "no chapters" message and a non-zero status,
\* and has created neither an output directory nor a work item.
C4_AllInvalidFailsCleanly ==
    (Exited /\ info.chapters # <<>> /\ PositiveDuration = {}) =>
        /\ ExitStatus # 0
        /\ exc = "none"
        /\ dirs = {}
        /\ WIS = <<>>

\* ------------------------------------------------------------------ reading a file name back
\* first index of c in s at or after from, Len(s) + 1 when absent
Find(s, c, from) ==
    LET hits == {i \in from..Len(s) : s[i] = c}
    IN  IF hits = {} THEN Len(s) + 1 ELSE CHOOSE i \in hits : \A j \in hits : i <= j

\* the number between "ch " and the next blank of an output path
ChNumField(path) ==
    LET b == Basename(path) IN SubSeq(b, 4, Find(b, " ", 4) - 1)

\* the label between "ch N - " and ".ext" of an output path
LabelField(path, ext) ==
    LET b == Basename(path)
    IN  SubSeq(b, Find(b, " ", 4) + 3, Len(b) - Len(ext) - 1)

RECURSIVE DigitCount(_)
DigitCount(n) == IF n < 10 THEN 1 ELSE 1 + DigitCount(n \div 10)

\* the greatest id among the probed chapters of positive duration
MaxValidId ==
    CHOOSE m \in {info.chapters[i].id : i \in PositiveDuration} :
        \A i \in PositiveDuration : info.chapters[i].id <= m

HasTitle(ch) == ch.tags.present /\ ch.tags.title.some /\ ch.tags.title.val # NoText

PairwiseDistinctOutfiles ==
    \A i, j \in 1..Len(WIS) : i # j => WIS[i].outfile # WIS[j].outfile

\* ------------------------------------------------------------------ C5
\* C5 (as claimed): the outfile paths of a work plan are pairwise distinct, for
\* every validated chapter list.
C5_OutfilesDistinct == PairwiseDistinctOutfiles

\* C5 (amended): the outfile paths of a work plan are pairwise distinct when
\* the validated chapters have pairwise distinct ids, whatever the titles and
\* the title option.
C5_OutfilesDistinctForDistinctIds ==
    (\A i, j \in PositiveDuration : i # j => info.chapters[i].id # info.chapters[j].id)
        => PairwiseDistinctOutfiles

\* two chapters with the same title, named after it
C5_Witness ==
    /\ Len(WIS) = 2
    /\ args.use_title
    /\ WIS[1].ch_title = Some(<<"T">>)
    /\ WIS[2].ch_title = Some(<<"T">>)
    /\ WIS[1].ch_id # WIS[2].ch_id
    /\ WIS[1].outfile # WIS[2].outfile

\* ------------------------------------------------------------------ C6
\* C6: the chapter number in every output file name is the chapter id padded
\* with zeroes to the number of decimal digits of the greatest id among the
\* chapters of positive duration.
C6_PaddingWidthOfMaxValidId ==
    \A k \in 1..Len(WIS) :
        LET f == ChNumField(WIS[k].outfile)
        IN  /\ Len(f) = DigitCount(MaxValidId)
            /\ f = Fill("0", Len(f) - Len(Str(WIS[k].ch_id))) \o Str(WIS[k].ch_id)

\* chapter 10 is dropped for its duration and chapter 1 is numbered "1"
C6_Witness ==
    /\ Len(WIS) = 1
    /\ \E i \in 1..Len(info.chapters) :
          i \notin PositiveDuration /\ info.chapters[i].id = 10
    /\ WIS[1].ch_id = 1
    /\ ChNumField(WIS[1].outfile) = <<"1">>

\* ------------------------------------------------------------------ C7
\* C7: the label of an output file name is the chapter's title when titles
\* are enabled and the chapter has a non-empty title, and the input base name
\* in every other case.
C7_LabelIsTitleOrBaseName ==
    \A k \in 1..Len(WIS) :
        LabelField(WIS[k].outfile, fext) =
            IF args.use_title /\ HasTitle(chapters[k])
            THEN chapters[k].tags.title.val
            ELSE fbase

\* titles disabled, a chapter with a title is named after the input file
C7_Witness ==
    /\ ~args.use_title
    /\ \E k \in 1..Len(WIS) :
          /\ HasTitle(chapters[k])
          /\ chapters[k].tags.title.val # fbase
          /\ LabelField(WIS[k].outfile, fext) = fbase

\* ------------------------------------------------------------------ C8
MetadataValues(cmd) == {cmd[p + 1] : p \in {q \in 1..(Len(cmd) - 1) : cmd[q] = <<"-metadata">>}}

IsPrefix(p, t) == Len(p) <= Len(t) /\ SubSeq(t, 1, Len(p)) = p

TitleValues(cmd) == {v \in MetadataValues(cmd) : IsPrefix(<<"t", "i", "t", "l", "e", "=">>, v)}

C9_DryRunDispatchesNothing ==
    args.dry_run =>
        /\ jobs = <<>>
        /\ n_jobs = 0
        /\ success + errors = 0
        /\ (Exited /\ PositiveDuration # {}) =>
              /\ ExitStatus = 0
              /\ outdir \in dirs
              /\ Len(WIS) = Cardinality(PositiveDuration)
              /\ Len(printed) = Len(WIS)
              /\ \A k \in 1..Len(WIS) : printed[k][Len(printed[k])] = WIS[k].outfile

C9_Witness ==
    /\ args.dry_run
    /\ Exited
    /\ Len(printed) = 2
    /\ dirs # {}
    /\ jobs = <<>>

\* ------------------------------------------------------------------ C10
\* the probe exited non-zero, or its output has no or an empty chapter list
ProbeUnusable ==
    \/ Logged("ERROR: ffprobe")
    \/ ~info.isNone /\ (~info.hasChapters \/ info.chapters = <<>>)

\* C10: after an unusable probe the run returns non-zero with a message, and
\* no output directory, WorkItem or job exists.
C10_UnusableProbeAborts ==
    (ProbeUnusable /\ pc # "check_info") =>
        /\ Exited
        /\ exc = "none"
        /\ ExitStatus # 0
        /\ Logged("Could not parse chapters")
        /\ dirs = {}
        /\ WIS = <<>>
        /\ jobs = <<>>

\* the probe succeeded with an empty chapter list
C10_Witness ==
    /\ Exited
    /\ ~info.isNone
    /\ info.hasChapters
    /\ info.chapters = <<>>
    /\ ExitStatus = -1
    /\ dirs = {}

\* ------------------------------------------------------------------ C11
\* the input file name has nothing before, or nothing after, its last dot
NamePartEmpty ==
    LET b == Basename(args.infile)
    IN  RFind(b, ".") \in {0, 1, Len(b)}

\* C11 (as claimed): when the base name or the extension of the input file is
\* empty, main returns non-zero at once: the probe is never run, no output
\* directory is created and no job is submitted.
C11_EmptyNamePartAborts ==
    NamePartEmpty =>
        /\ pc \in {"splitext", "done"}
        /\ Exited => (exc = "none" /\ ExitStatus # 0)
        /\ info = NoInfo
        /\ ~Logged("ERROR: ffprobe")
        /\ dirs = {}
        /\ jobs = <<>>

\* ------------------------------------------------------------------ C12
NotStarted == {i \in 1..Len(jobs) : jobs[i].state = "Failed" /\ jobs[i].raised}

\* C12 (as claimed): when a job could not be started, the run still ends with
\* every outcome consumed and the report printed, and that job is counted as
\* one error: one ERROR line for it, and errors is the number of failed jobs.
C12_JobThatCannotStartIsCounted ==
    (Exited /\ NotStarted # {}) =>
        /\ AllYielded
        /\ \A i \in NotStarted :
              Cardinality({k \in 1..Len(log) :
                              log[k] = <<"ERROR: job generated an exception", i>>}) = 1
        /\ errors = Cardinality({i \in 1..Len(jobs) : jobs[i].state = "Failed"})
        /\ success = Cardinality({i \in 1..Len(jobs) : jobs[i].state = "Succeeded"})
        /\ Logged("Processing done")

\* ------------------------------------------------------------------ C13
\* the probe ran and left no parsed output, though the tool was started and
\* did not exit non-zero: its output was malformed
MalformedProbe ==
    /\ Exited
    /\ fbase # NoText
    /\ info.isNone
    /\ ~Logged("ERROR: ffprobe")
    /\ exc # "OSError"

\* C13 (as claimed): malformed probe output does not raise; main returns
\* non-zero with a message and has created no output directory.
C13_MalformedProbeAborts ==
    MalformedProbe =>
        /\ exc = "none"
        /\ ExitStatus # 0
        /\ Logged("Could not parse chapters")
        /\ dirs = {}

\* ------------------------------------------------------------------ C14
\* the steps a future may take
JobSteps == { <<"Submitted", "Running">>, <<"Running", "Succeeded">>, <<"Running", "Failed">> }

JobsAdvance ==
    /\ Len(jobs') >= Len(jobs)
    /\ \A i \in 1..Len(jobs) :
          jobs'[i].state = jobs[i].state \/ <<jobs[i].state, jobs'[i].state>> \in JobSteps
    /\ \A i \in (Len(jobs) + 1)..Len(jobs') : jobs'[i].state = "Submitted"

\* C14: at most args.concurrency jobs are Running at any time, and a job only
\* moves Submitted -> Running -> Succeeded or Failed; a finished job never
\* changes state again.
C14_PoolBoundAndJobLifecycle ==
    /\ [](Cardinality(Running) <= args.concurrency)
    /\ [][JobsAdvance]_vars

\* one worker: a job runs while the next one waits in the queue
C14_Witness ==
    /\ args.concurrency = 1
    /\ Len(jobs) = 2
    /\ jobs[1].state = "Running"
    /\ jobs[2].state = "Submitted"

\* ------------------------------------------------------------------ C15
\* C15 (as claimed): a real run that built a work plan ends with every
\* WorkItem submitted and finished, and with exactly one outcome per WorkItem
\* consumed and counted.
C15_EveryOutcomeConsumedOnce ==
    (Exited /\ ~args.dry_run /\ WIS # <<>>) =>
        /\ Len(jobs) = Len(WIS)
        /\ Finished = 1..Len(jobs)
        /\ AllYielded
        /\ success + errors = Len(WIS)

\* ------------------------------------------------------------------ C16
\* C16: when the report is printed, total = success + errors = the number of
\* WorkItems, success is the number of jobs whose tool exited zero and errors
\* the number of the others, in whatever order the outcomes were consumed.
C16_ReportCountsTheOutcomes ==
    Logged("Processing done") =>
        /\ n_jobs = Len(WIS)
        /\ success + errors = n_jobs
        /\ success = Cardinality({i \in 1..Len(jobs) : jobs[i].state = "Succeeded"})
        /\ errors = Cardinality({i \in 1..Len(jobs) : jobs[i].state = "Failed"})

\* a report after the second job was consumed before the first
C16_Witness ==
    /\ Logged("Processing done")
    /\ n_jobs = 2
    /\ success = 1
    /\ errors = 1
    /\ \E a, b \in 1..Len(log) : a < b /\ log[a][2] = 2 /\ log[b][2] = 1
                                   /\ log[a][1] = "done"
                                   /\ log[b][1] = "ERROR: job generated an exception"

\* ------------------------------------------------------------------ C20
\* the commands of a run of this command line on these probed chapters that
\* writes into directory d
PlannedCmds(d) ==
    LET cs == SelectSeq(info.chapters, LAMBDA ch : ch.end - ch.start > 0)
        m  == MaxValidId
    IN  [k \in 1..Len(cs) |->
            workitem_to_ffmpeg_cmd(
                [WorkItem(cs[k], m) EXCEPT
                    !.outfile = PathJoin(d, outfile_basename(cs[k].id, get_title_maybe(cs[k]),
                                                             m, args.use_title, fbase, fext))])]

\* the output directories a run of this command line may use
RunDirs == IF Truthy(args.outdir) THEN {args.outdir.val} ELSE TempDirs

\* C20 (as claimed): the commands a real run hands to the tool are the
\* commands any dry run of the same input, options and probed chapters prints.
C20_RealRunRunsWhatDryRunPrints ==
    \A d \in RunDirs :
        \A k \in 1..Len(jobs) :
            jobs[k].cmd # <<>> => jobs[k].cmd = PlannedCmds(d)[k]

\* C20 (amended): the commands printed by a dry run and the commands handed
\* to the tool by a real run are the same function of the input, the options,
\* the probed chapters and the output directory of the run, which is --outdir
\* when that option is given.
C20_SameCommandsForSameOutdir ==
    /\ (args.dry_run /\ Exited /\ WIS # <<>>) => printed = PlannedCmds(outdir)
    /\ \A k \in 1..Len(jobs) :
          jobs[k].cmd # <<>> => jobs[k].cmd = PlannedCmds(outdir)[k]
    /\ (Truthy(args.outdir) /\ outdir # NoText) => outdir = args.outdir.val

\* a real run into --outdir whose two jobs were both handed to the tool
C20_Witness ==
    /\ ~args.dry_run
    /\ Truthy(args.outdir)
    /\ Len(jobs) = 2
    /\ jobs[1].cmd # <<>>
    /\ jobs[2].cmd # <<>>
    /\ jobs[1].cmd # jobs[2].cmd

\* ------------------------------------------------------------------ C18
Yielded == {i \in 1..Len(jobs) : jobs[i].yielded}

\* a step that changes a counter is one pass of the main thread's
\* as_completed loop: it consumes one finished future and adds one
TallyOnlyInLoop ==
    (success' # success \/ errors' # errors) =>
        /\ pc = "collect"
        /\ success' + errors' = success + errors + 1
        /\ Len(jobs') = Len(jobs)
        /\ \A i \in 1..Len(jobs) : jobs'[i].state = jobs[i].state
        /\ \E i \in Finished : Yielded' = Yielded \cup {i} /\ i \notin Yielded

\* C18: success and errors change only in the main thread's loop over the
\* completed futures, never in a step of a worker, and at every moment they
\* add up to the number of outcomes consumed so far.
C18_TallyWrittenByMainOnly ==
    /\ [](success + errors = Cardinality(Yielded))
    /\ [][TallyOnlyInLoop]_vars

\* one outcome is tallied while a worker is still running another job
C18_Witness ==
    /\ success + errors = 1
    /\ Running # {}
    /\ pc = "collect"

\* ------------------------------------------------------------------ C17
\* the chapter ids of a sequence of work items or chapters, in order
PlanIds == [k \in 1..Len(WIS) |-> WIS[k].ch_id]

ProbedValidIds ==
    LET vs == SelectSeq(info.chapters, LAMBDA ch : ch.end - ch.start > 0)
    IN  [k \in 1..Len(vs) |-> vs[k].id]

SubmittedInPlanOrder == \A k \in 1..Len(jobs) : jobs[k].wi = WIS[k]

\* C17 as stated: the work plan, and so the order of submission, lists the
\* validated chapters by ascending chapter id, whatever the order of the ids
\* in the probe's list.
C17_PlanAscendingById ==
    /\ \A i, j \in 1..Len(WIS) : i < j => WIS[i].ch_id <= WIS[j].ch_id
    /\ SubmittedInPlanOrder

\* C17 amended: the work plan lists the validated chapters in the order of the
\* probe's list, each under the id read from the chapter, and the jobs are
\* submitted in the order of the plan; the plan ascends by id exactly when the
\* probe's valid chapters do.
C17_PlanInProbeOrder ==
    /\ (pc \notin PrePlan /\ ~Exited) \/ WIS # <<>> => PlanIds = ProbedValidIds
    /\ SubmittedInPlanOrder

C17_Witness ==
    /\ PlanIds = <<10, 1>>
    /\ Len(jobs) = 2

\* ------------------------------------------------------------------ C19
RECURSIVE Num(_)
\* the number a text of digits writes
Num(t) ==
    IF t = NoText THEN 0
    ELSE 10 * Num(SubSeq(t, 1, Len(t) - 1))
         + (CHOOSE d \in 0..9 : DigitChars[d + 1] = t[Len(t)])

\* C19: for every work item the end time stamp it carries is greater than the
\* start time stamp it carries.
C19_CarriedStampsHavePositiveDuration ==
    \A k \in 1..Len(WIS) : Num(WIS[k].end) > Num(WIS[k].start)

====
